---- MODULE Spec2Model ----
(***************************************************************************)
(* Inkwell: decompose / patch / reassemble pipeline.                       *)
(*                                                                         *)
(* Markup text is a sequence of tokens: an opening tag (with its           *)
(* data-inkwell-id attribute, if any, and its className / classname        *)
(* attribute values), a closing tag, or a run of text.  A text token may   *)
(* be whitespace, the `return (` head of a function component, its         *)
(* `); }` tail, or plain text (which may spell data-inkwell-id="x"         *)
(* literally).  A parsed document (cheerio) is kept as the balanced token  *)
(* sequence that serialises it.                                            *)
(***************************************************************************)
EXTENDS Integers, Sequences, FiniteSets, TLC

\* ------------------------------------------------------------------------
\* Bounds

\* number of nodes (elements and text runs) of an enumerated parser input
MaxNodes == 2

\* number of requests the server receives in one behaviour
MaxReqs == 3

\* number of Components of an enumerated project handed to assembleJSX
MaxFrags == 2

\* number of assembleJSX calls made on one project
MaxCalls == 2

\* number of entries of the editor's log in one behaviour
MaxUiEvents == 6

\* ------------------------------------------------------------------------
\* Tokens

Open(tag, hasId, id, cls) ==
    [k |-> "open", tag |-> tag, hasId |-> hasId, id |-> id,
     cls |-> cls, lcls |-> "", txt |-> ""]

Close(tag) ==
    [k |-> "close", tag |-> tag, hasId |-> FALSE, id |-> "",
     cls |-> "", lcls |-> "", txt |-> ""]

\* plain text; hasId means the text spells data-inkwell-id="id" literally
Text(txt, hasId, id) ==
    [k |-> "text", tag |-> "", hasId |-> hasId, id |-> id,
     cls |-> "", lcls |-> "", txt |-> txt]

WS  == Text("ws", FALSE, "")
RET == Text("return (", FALSE, "")
END == Text("); }", FALSE, "")

IsTag(t) == t.k \in {"open", "close"}

\* String.prototype.trim on a token sequence
RECURSIVE TrimLeft(_)
TrimLeft(s) ==
    IF s # <<>> /\ Head(s) = WS THEN TrimLeft(Tail(s)) ELSE s

RECURSIVE TrimRight(_)
TrimRight(s) ==
    IF s # <<>> /\ s[Len(s)] = WS THEN TrimRight(SubSeq(s, 1, Len(s) - 1)) ELSE s

Trim(s) == TrimRight(TrimLeft(s))

\* code.includes(`data-inkwell-id="${id}"`)
Includes(code, id) ==
    \E i \in 1..Len(code) : code[i].k # "close" /\ code[i].hasId /\ code[i].id = id

\* ------------------------------------------------------------------------
\* cheerio

\* the closing tags of the open elements in stack[1..n], innermost first
RECURSIVE Closes(_, _)
Closes(stack, n) ==
    IF n = 0 THEN <<>> ELSE <<Close(stack[1])>> \o Closes(Tail(stack), n - 1)

\* index of the innermost open element with this tag, 0 if none
RECURSIVE StackPos(_, _, _)
StackPos(stack, tag, i) ==
    IF i > Len(stack) THEN 0
    ELSE IF stack[i] = tag THEN i
    ELSE StackPos(stack, tag, i + 1)

\* the HTML parser lower-cases attribute names: className becomes classname
LowerAttrs(t) ==
    [t EXCEPT !.cls = "", !.lcls = IF t.lcls # "" THEN t.lcls ELSE t.cls]

RECURSIVE LoadFrom(_, _, _)
LoadFrom(s, i, stack) ==
    IF i > Len(s) THEN Closes(stack, Len(stack))
    ELSE LET t == s[i] IN
         IF t.k = "open" THEN
             <<LowerAttrs(t)>> \o LoadFrom(s, i + 1, <<t.tag>> \o stack)
         ELSE IF t.k = "close" THEN
             LET n == StackPos(stack, t.tag, 1) IN
             IF n = 0 THEN LoadFrom(s, i + 1, stack)
             ELSE Closes(stack, n) \o LoadFrom(s, i + 1, SubSeq(stack, n + 1, Len(stack)))
         ELSE <<t>> \o LoadFrom(s, i + 1, stack)

\* load(html): the parsed document; unclosed elements are closed at the
\* end, closing tags of elements that are not open are dropped
Load(s) == LoadFrom(s, 1, <<>>)

\* index of the closing tag of the element opened at d[i], d a document
RECURSIVE MatchFrom(_, _, _)
MatchFrom(d, j, depth) ==
    IF j > Len(d) THEN Len(d)
    ELSE IF d[j].k = "open" THEN MatchFrom(d, j + 1, depth + 1)
    ELSE IF d[j].k = "close" THEN
        IF depth = 0 THEN j ELSE MatchFrom(d, j + 1, depth - 1)
    ELSE MatchFrom(d, j + 1, depth)

Match(d, i) == MatchFrom(d, i + 1, 0)

\* the markup inside the element only, as $(el).html() would give
Html_Inner(d, i) == SubSeq(d, i + 1, Match(d, i) - 1)

\* $.html(el) for the element opened at d[i]
Html(d, i) == SubSeq(d, i, Match(d, i))

\* $('[data-inkwell-id]'): the elements carrying the attribute, in document order
Identified(d) == {i \in 1..Len(d) : d[i].k = "open" /\ d[i].hasId}

\* no ancestor check: every identified element counts as root-level
HasIdentifiedParent_Never(d, i) == FALSE

\* $el.parents('[data-inkwell-id]').length > 0
HasIdentifiedParent(d, i) ==
    \E j \in Identified(d) : j < i /\ Match(d, j) > i

\* $(`[data-inkwell-id="${id}"]`)
Select(d, id) == {i \in Identified(d) : d[i].id = id}

Min(S) == CHOOSE x \in S : \A y \in S : x <= y

\* ------------------------------------------------------------------------
\* parser.ts

\* generateId(): the n-th token of the random stream
GenId(n) == "g" \o ToString(n)

\* tag.charAt(0).toUpperCase() + tag.slice(1)
Capitalize(tag) ==
    CASE tag = "div" -> "Div"
      [] tag = "span" -> "Span"
      [] tag = "p" -> "P"
      [] tag = "h4" -> "H4"
      [] OTHER -> tag

\* the fixed markup of the ErrorFallback component
ErrorPayload ==
    << Open("div", FALSE, "", "text-red-500 p-8"),
       Open("p", FALSE, "", "text-lg font-bold"),
       Text("Parsing Failed: LLM Output Structure Error", FALSE, ""),
       Close("p"),
       Open("p", FALSE, "", "text-sm mt-2"),
       Text("The AI output was malformed.", FALSE, ""),
       Close("p"),
       Close("div") >>

\* rawCode.match(/return\s*\(([^]*?)\)\s*;\s*\}/): the leftmost `return (`
\* that has a `); }` after it, and the text up to the first such tail
ComponentRegex(rawCode) ==
    LET starts == {i \in 1..Len(rawCode) :
                     /\ rawCode[i] = RET
                     /\ \E j \in (i + 1)..Len(rawCode) : rawCode[j] = END}
    IN  IF starts = {} THEN [found |-> FALSE, group |-> <<>>]
        ELSE LET i == Min(starts)
                 j == Min({j \in (i + 1)..Len(rawCode) : rawCode[j] = END})
             IN  [found |-> TRUE, group |-> SubSeq(rawCode, i + 1, j - 1)]

\* /^\s*<[^>]+>[^]*<\/[^>]+>\s*$/.test(s): s starts with a tag and ends
\* with a closing tag
JsxPattern(s) ==
    LET t == Trim(s) IN
    Len(t) >= 2 /\ IsTag(t[1]) /\ t[Len(t)].k = "close"

\* a root tag test that does not ask for the identity attribute
RootTagMatch_AnyTag(innerJSX) ==
    /\ innerJSX # <<>>
    /\ innerJSX[1].k = "open"

\* innerJSX.match(/^<([a-zA-Z0-9]+)[^>]*data-inkwell-id=["']([^"']+)["']/)
RootTagMatch(innerJSX) ==
    /\ innerJSX # <<>>
    /\ innerJSX[1].k = "open"
    /\ innerJSX[1].hasId
    /\ innerJSX[1].id # ""

\* the body of $allElements.each: one Component per identified element
\* that is not inside another identified element; used counts the
\* generateId() calls made so far
RECURSIVE EachElement(_, _, _, _, _)
EachElement(d, i, used, seed, now) ==
    IF i > Len(d) THEN <<>>
    ELSE IF i \in Identified(d) /\ ~HasIdentifiedParent(d, i) THEN
        LET gen == (d[i].id = "")
            c   == [id          |-> IF gen THEN GenId(seed + used) ELSE d[i].id,
                    name        |-> Capitalize(d[i].tag),
                    code        |-> Html(d, i),
                    elementType |-> d[i].tag,
                    lastUpdated |-> now]
        IN  <<c>> \o EachElement(d, i + 1, IF gen THEN used + 1 ELSE used, seed, now)
    ELSE EachElement(d, i + 1, used, seed, now)

\* the extraction without the RootContainer fallback
ExtractComponents_NoFallback(innerJSX, seed, now) ==
    EachElement(Load(innerJSX), 1, 0, seed, now)

\* lines 49-93: cheerio extraction, then the RootContainer fallback
ExtractComponents(innerJSX, seed, now) ==
    LET components == EachElement(Load(innerJSX), 1, 0, seed, now) IN
    IF Len(components) = 0 THEN
        LET m == RootTagMatch(innerJSX) IN
        << [id          |-> IF m THEN innerJSX[1].id ELSE GenId(seed),
            name        |-> "RootContainer",
            code        |-> innerJSX,
            elementType |-> IF m THEN innerJSX[1].tag ELSE "div",
            lastUpdated |-> now] >>
    ELSE components

\* every input taken as working markup
WorkingMarkup_Lenient(rawCode) ==
    LET match == ComponentRegex(rawCode) IN
    IF match.found /\ match.group # <<>> THEN
        [ok |-> TRUE, innerJSX |-> Trim(match.group)]
    ELSE [ok |-> TRUE, innerJSX |-> Trim(rawCode)]

\* lines 19-47: the working markup, or none when the input has neither shape
WorkingMarkup(rawCode) ==
    LET match == ComponentRegex(rawCode) IN
    IF match.found /\ match.group # <<>> THEN
        [ok |-> TRUE, innerJSX |-> Trim(match.group)]
    ELSE IF JsxPattern(Trim(rawCode)) THEN
        [ok |-> TRUE, innerJSX |-> Trim(rawCode)]
    ELSE [ok |-> FALSE, innerJSX |-> <<>>]

decomposeJSX(rawCode, seed, now) ==
    LET w == WorkingMarkup(rawCode) IN
    IF w.ok THEN ExtractComponents(w.innerJSX, seed, now)
    ELSE << [id          |-> GenId(seed),
             name        |-> "ErrorFallback",
             code        |-> ErrorPayload,
             elementType |-> "div",
             lastUpdated |-> now] >>

\* components.map(c => c.code).join('\n') inside the fixed wrapper
FN == Text("function GeneratedUI() {", FALSE, "")
NL == Text("\n", FALSE, "")

AssemblePrefix ==
    << FN, RET,
       Open("div", FALSE, "", "flex flex-col items-center justify-center min-h-screen p-8"),
       Open("div", FALSE, "", "w-full max-w-md h-auto min-h-16"),
       Open("React.Fragment", FALSE, "", "") >>

AssembleSuffix ==
    << Close("React.Fragment"), Close("div"), Close("div"), END >>

\* a join that puts nothing between two Components
RECURSIVE JoinCode_NoSeparator(_, _)
JoinCode_NoSeparator(components, i) ==
    IF i > Len(components) THEN <<>>
    ELSE components[i].code \o JoinCode_NoSeparator(components, i + 1)

RECURSIVE JoinCode(_, _)
JoinCode(components, i) ==
    IF i > Len(components) THEN <<>>
    ELSE IF i = Len(components) THEN components[i].code
    ELSE components[i].code \o <<NL>> \o JoinCode(components, i + 1)

assembleJSX(components) ==
    AssemblePrefix \o JoinCode(components, 1) \o AssembleSuffix

\* ------------------------------------------------------------------------
\* sanitizer.ts

AllowedTags ==
    {"div", "span", "p", "h1", "h2", "h3", "a", "img", "button", "input",
     "form", "label", "ul", "li", "svg", "path", "header", "footer",
     "section", "main", "nav", "br", "hr"}

\* purify.sanitize on a parsed document: an element whose tag is not
\* allowed is removed and its content kept; an attribute that is not
\* allowed (className, classname) is removed; data-inkwell-id is kept
RECURSIVE Purify(_)
Purify(d) ==
    IF d = <<>> THEN <<>>
    ELSE LET t == Head(d) IN
         IF IsTag(t) /\ t.tag \notin AllowedTags THEN Purify(Tail(d))
         ELSE IF t.k = "open" THEN
             <<[t EXCEPT !.cls = "", !.lcls = ""]>> \o Purify(Tail(d))
         ELSE <<t>> \o Purify(Tail(d))

sanitizeCode(rawCode) == Purify(Load(rawCode))

\* ------------------------------------------------------------------------
\* gemini.ts

\* JSON.stringify({ error: ... }), the error sentinel of generateContent
ErrorSentinel == << Text("{\"error\":\"Gemini API returned no text output.\"}", FALSE, "") >>

\* rawCode.startsWith('{"error"')
StartsWithError(rawCode) == rawCode # <<>> /\ rawCode[1] = ErrorSentinel[1]

\* a markdown code fence
FENCE == Text("[fence]", FALSE, "")

\* rawPatchCode.replace(<code fences>, '')
RECURSIVE StripFences(_)
StripFences(s) ==
    IF s = <<>> THEN <<>>
    ELSE IF Head(s) = FENCE THEN StripFences(Tail(s))
    ELSE <<Head(s)>> \o StripFences(Tail(s))

\* ------------------------------------------------------------------------
\* persist.ts

\* loadProject() when the project file does not exist
NoProject == [exists |-> FALSE]

\* ------------------------------------------------------------------------
\* api/patch/route.ts

\* a field the request body leaves out
Undefined == "undefined"

\* !value, for a string field of a request body
Falsy(value) == value \in {"", Undefined}

\* a lookup that settles for the first component when none matches
FindComponent_First(components, componentId) ==
    LET hits == {i \in 1..Len(components) :
                   \/ components[i].id = componentId
                   \/ Includes(components[i].code, componentId)}
    IN  IF hits # {} THEN Min(hits)
        ELSE IF Len(components) > 0 THEN 1 ELSE 0

\* project.components.find(c => c.id === componentId ||
\*                              c.code.includes(`data-inkwell-id="${componentId}"`))
\* as the index of the component found, 0 if none
FindComponent(components, componentId) ==
    LET hits == {i \in 1..Len(components) :
                   \/ components[i].id = componentId
                   \/ Includes(components[i].code, componentId)}
    IN  IF hits = {} THEN 0 ELSE Min(hits)

\* $.html(selection): the outer markup of every selected element, in order
RECURSIVE HtmlOfAll(_, _)
HtmlOfAll(d, sel) ==
    IF sel = {} THEN <<>>
    ELSE LET i == Min(sel) IN Html(d, i) \o HtmlOfAll(d, sel \ {i})

\* step 3: the markup handed to the model, and the className to preserve
ExtractTarget(componentToPatch, componentId) ==
    LET d   == Load(componentToPatch.code)
        sel == Select(d, componentId)
    IN  IF componentToPatch.id # componentId /\ sel # {} THEN
            [code               |-> HtmlOfAll(d, sel),
             elementType        |-> d[Min(sel)].tag,
             preservedClassName |-> d[Min(sel)].cls]
        ELSE
            [code               |-> componentToPatch.code,
             elementType        |-> componentToPatch.elementType,
             preservedClassName |-> ""]

\* the identity check left out
IdPreserved_Skipped(sanitizedPatchCode, componentId) == TRUE

\* step 5: sanitizedPatchCode.includes(`data-inkwell-id="${componentId}"`)
IdPreserved(sanitizedPatchCode, componentId) ==
    Includes(sanitizedPatchCode, componentId)

\* `${preservedClassName} ${newClasses}`.trim()
MergeClasses(preservedClassName, newClasses) ==
    IF newClasses = "" THEN preservedClassName
    ELSE preservedClassName \o " " \o newClasses

\* step 7: style preservation
PreserveStyle(code, preservedClassName, componentId) ==
    LET d   == Load(code)
        sel == Select(d, componentId)
    IN  IF preservedClassName # "" /\ sel # {} THEN
            LET merged == MergeClasses(preservedClassName, d[Min(sel)].cls)
                d2     == [i \in 1..Len(d) |->
                             IF i \in sel THEN [d[i] EXCEPT !.cls = merged] ELSE d[i]]
            IN  HtmlOfAll(d2, sel)
        ELSE code

\* step 8: project.components.map(...)
UpdateComponents(components, componentId, finalPatchedCode, now) ==
    [i \in 1..Len(components) |->
        IF components[i].id = componentId
        THEN [components[i] EXCEPT !.code = finalPatchedCode, !.lastUpdated = now]
        ELSE components[i]]

\* the cached document kept as it was
AssembleUpdated_Stale(project, updatedComponents) == project.fullCode

\* assembleJSX({ ...project, components: updatedComponents })
AssembleUpdated(project, updatedComponents) == assembleJSX(updatedComponents)

\* fullCode.includes('function GeneratedUI()')
HasMarker(fullCode) == \E i \in 1..Len(fullCode) : fullCode[i] = FN

\* the history entry of a patch
PatchRecord(componentId, editPrompt, rnd, now) ==
    [timestamp   |-> now,
     description |-> <<"Patched component", componentId, editPrompt>>,
     model       |-> "gemini-2.5-pro",
     patchId     |-> GenId(rnd)]

\* a history that keeps only the newest record
ExtendHistory_Reset(history, record) == <<record>>

\* [...project.history, { ... }]
ExtendHistory(history, record) == Append(history, record)

\* an error path that still writes the project file
Failure_Persisting(status, error) ==
    [status |-> status, error |-> error, save |-> TRUE,
     body |-> NoProject, fullCode |-> <<>>, patchCode |-> <<>>]

\* an error response
Failure(status, error) ==
    [status |-> status, error |-> error, save |-> FALSE,
     body |-> NoProject, fullCode |-> <<>>, patchCode |-> <<>>]

\* steps 1-2 of POST: the response when the request ends before the model
\* is called, status 0 when it goes on
PatchLookup(project, projectId, componentId) ==
    IF project = NoProject \/ project.projectId # projectId THEN
        Failure(404, "Project not found or invalid ID.")
    ELSE IF FindComponent(project.components, componentId) = 0 THEN
        Failure(404, "Component not found.")
    ELSE Failure(0, "")

\* steps 4-9 of POST, from the answer of generateContent on
PatchOutcome(project, componentId, editPrompt, preservedClassName, rawPatchCode, rnd, now) ==
    IF StartsWithError(rawPatchCode) THEN
        Failure(500, rawPatchCode[1].txt)
    ELSE
    LET sanitizedPatchCode == sanitizeCode(Trim(StripFences(rawPatchCode))) IN
    IF ~IdPreserved(sanitizedPatchCode, componentId) THEN
        Failure(500, "Generated code is missing required component ID.")
    ELSE
    LET patchedComponent == decomposeJSX(sanitizedPatchCode, rnd, now)[1] IN
    IF patchedComponent.code = <<>> THEN
        Failure(500, "Failed to parse patched component")
    ELSE
    LET finalPatchedCode  == PreserveStyle(patchedComponent.code, preservedClassName, componentId)
        updatedComponents == UpdateComponents(project.components, componentId, finalPatchedCode, now)
        fullCode          == AssembleUpdated(project, updatedComponents)
        updatedProject    == [project EXCEPT
                                !.components = updatedComponents,
                                !.fullCode   = fullCode,
                                !.history    = ExtendHistory(project.history,
                                                 PatchRecord(componentId, editPrompt, rnd + 1, now))]
    IN  IF ~HasMarker(fullCode) THEN
            Failure(500, "Generated code is invalid")
        ELSE
            [status |-> 200, error |-> "", save |-> TRUE,
             body |-> updatedProject, fullCode |-> fullCode,
             patchCode |-> finalPatchedCode]

\* ------------------------------------------------------------------------
\* api/generate/route.ts

\* lines 61-94 on the token alphabet: code fences are removed, and when a
\* `function GeneratedUI(...) { ... \n}` block is present only that block
\* is kept
CleanGenerated(rawCode) ==
    LET s      == Trim(StripFences(rawCode))
        starts == {i \in 1..Len(s) :
                     s[i] = FN /\ \E j \in (i + 1)..Len(s) : s[j] = END}
    IN  IF starts = {} THEN s
        ELSE LET i == Min(starts)
                 j == Min({j \in (i + 1)..Len(s) : s[j] = END})
             IN  SubSeq(s, i, j)

GenerateOutcome(prompt, rawCode, rnd, now) ==
    IF StartsWithError(rawCode) THEN
        Failure(500, rawCode[1].txt)
    ELSE
    LET cleanedCode   == CleanGenerated(rawCode)
        sanitizedCode == sanitizeCode(cleanedCode)
        newComponents == decomposeJSX(sanitizedCode, rnd, now)
        newProject    == [exists        |-> TRUE,
                          projectId     |-> "p" \o ToString(rnd + Len(newComponents)),
                          title         |-> prompt,
                          initialPrompt |-> prompt,
                          components    |-> newComponents,
                          fullCode      |-> assembleJSX(newComponents),
                          history       |-> << [timestamp   |-> now,
                                                description |-> <<"Initial generation.">>,
                                                model       |-> "gemini-2.5-pro",
                                                patchId     |-> "initial"] >>,
                          status        |-> "draft",
                          createdAt     |-> now]
    IN  [status |-> 200, error |-> "", save |-> TRUE,
         body |-> newProject, fullCode |-> cleanedCode, patchCode |-> <<>>]

\* ------------------------------------------------------------------------
\* Answers of the model (generateContent) and request bodies

Hi  == Text("hi", FALSE, "")
Bye == Text("bye", FALSE, "")

\* text that spells data-inkwell-id="id"
Mention(id) == Text("data-inkwell-id=", TRUE, id)

El(tag, id, kids) == <<Open(tag, TRUE, id, "")>> \o kids \o <<Close(tag)>>

Plain(tag, kids) == <<Open(tag, FALSE, "", "")>> \o kids \o <<Close(tag)>>

Component(body) == <<FN, RET>> \o body \o <<END>>

\* what the model may answer to a generate request
GenOutputs ==
    { Component(El("div", "a", <<Hi>>)),
      Component(El("div", "a", El("span", "b", <<Hi>>))),
      Component(El("div", "a", El("span", "b", <<Hi>>)) \o El("p", "b", <<Hi>>)),
      Component(El("div", "a", <<Hi>>) \o El("span", "a", <<Hi>>)),
      Component(Plain("div", <<Hi>>)),
      Component(Plain("div", El("span", "a", <<Hi>>) \o El("span", "b", <<Hi>>))),
      Component(El("div", "a", <<Mention("b")>>)),
      <<FENCE>> \o El("div", "a", <<Hi>>) \o <<NL>> \o El("p", "b", <<Hi>>) \o <<FENCE>>,
      << Text("I cannot help with that.", FALSE, "") >>,
      ErrorSentinel }

\* what the model may answer to a patch request for identity t
PatchOutputs(t) ==
    { << Open("span", TRUE, t, "text-red-500"), Bye, Close("span") >>,
      El("div", t, El("span", "b", <<Bye>>)),
      El("div", "c", El("span", t, <<Bye>>)),
      <<FENCE>> \o El("p", t, <<Bye>>) \o <<FENCE>>,
      Component(El("div", t, <<Bye>>)),
      << Text("Here is the code:", FALSE, "") >> \o El("div", t, <<Bye>>),
      <<RET, WS, END>> \o El("div", t, <<Bye>>),
      El("h4", t, <<Bye>>),
      Plain("div", <<Bye>>),
      Plain("div", <<Mention(t)>>),
      ErrorSentinel }

\* identities that occur in markup
MarkupIds == {"a", "b", "c"}

Prompts == {"a login form", ""}

EditPrompts == {"make it red"}

\* ------------------------------------------------------------------------
\* State

VARIABLES
    stored,     \* the project file of persist.ts, NoProject when absent
    req,        \* the handler runs in flight, one record per run
    last,       \* the handler run that responded most recently
    now,        \* the clock behind new Date()
    rand,       \* position in the Math.random stream
    started,    \* number of requests received so far
    pIn,        \* decomposeJSX on its own: the input string
    pOut,       \* the Component list it returned
    pPc,        \* "call" before decomposeJSX ran, "return" after
    aIn,        \* assembleJSX on its own: the Component list of the project
    aOut,       \* the strings its calls returned, in call order
    ui,         \* the React state of InkwellEditor and of PreviewFrame
    fetch,      \* the request the editor awaits, NoFetch when none
    uiLog       \* the messages received, requests sent, responses handled
                \* and selections cleared in the editor, in order

vars == <<stored, req, last, now, rand, started, pIn, pOut, pPc, aIn, aOut, ui, fetch, uiLog>>

\* null, the value of an empty React state
Null == "null"

\* the prompt the editor starts with
DefaultPrompt == "A modern login form with a dark mode header and a submit button."

\* useState initial values: appState and editPrompt of InkwellEditor, and
\* lastClickedElementId of each of the two useIFrameComms() calls (the
\* editor's and PreviewFrame's)
InitialUI ==
    [projectId                 |-> Null,
     prompt                    |-> DefaultPrompt,
     jsxCode                   |-> "",
     isLoading                 |-> FALSE,
     error                     |-> Null,
     editPrompt                |-> "",
     lastClickedElementId      |-> Null,
     frameLastClickedElementId |-> Null]

\* no fetch is awaited
NoFetch ==
    [endpoint |-> "none", projectId |-> Null, componentId |-> Null, editPrompt |-> ""]

\* names of the handler runs that may be in flight together
Reqs == {1, 2}

IdleReq ==
    [pc          |-> "idle",   \* idle, gen / patch (awaiting generateContent), done
     kind        |-> "",
     prompt      |-> "",
     projectId   |-> "",
     componentId |-> "",
     editPrompt  |-> "",
     project     |-> NoProject, \* the project loaded by the patch handler
     found       |-> 0,         \* index of componentToPatch
     sent        |-> <<>>,      \* targetComponent.code, handed to the model
     preserved   |-> "",        \* preservedClassName
     called      |-> FALSE,     \* generateContent was called
     raw         |-> <<>>,      \* the answer of generateContent
     saves       |-> 0,         \* saveProject calls that took effect
     status      |-> 0,
     error       |-> "",
     body        |-> NoProject, \* the project of the response
     fullCode    |-> <<>>,      \* the fullCode of the response
     patchCode   |-> <<>>]      \* finalPatchedCode

\* a new request is served by the first free run
CanStart(r) ==
    /\ req[r].pc = "idle"
    /\ started < MaxReqs
    /\ \A q \in Reqs : q < r => req[q].pc # "idle"

Respond(base, out) ==
    [base EXCEPT !.pc = "done", !.status = out.status, !.error = out.error,
                 !.body = out.body, !.fullCode = out.fullCode,
                 !.patchCode = out.patchCode,
                 !.saves = IF out.save THEN base.saves + 1 ELSE base.saves]

\* generate POST up to the call of generateContent
GenerateStart(r, prompt) ==
    /\ CanStart(r)
    /\ started' = started + 1
    /\ LET fresh == [IdleReq EXCEPT !.kind = "generate", !.prompt = prompt] IN
       IF Falsy(prompt)
       THEN /\ last' = Respond(fresh, Failure(400, "Prompt is required."))
            /\ UNCHANGED req
       ELSE /\ req' = [req EXCEPT ![r] = [fresh EXCEPT !.pc = "gen", !.called = TRUE]]
            /\ UNCHANGED last
    /\ UNCHANGED <<stored, now, rand, pIn, pOut, pPc, aIn, aOut, ui, fetch, uiLog>>

\* generate POST from the answer of generateContent to the response
GenerateFinish(r, rawCode) ==
    /\ req[r].pc = "gen"
    /\ LET out == GenerateOutcome(req[r].prompt, rawCode, rand, now) IN
       /\ last' = Respond([req[r] EXCEPT !.raw = rawCode], out)
       /\ req' = [req EXCEPT ![r] = IdleReq]
       /\ stored' = IF out.save THEN out.body ELSE stored
       /\ rand' = IF out.save THEN rand + Len(out.body.components) + 1 ELSE rand
    /\ now' = now + 1
    /\ UNCHANGED <<started, pIn, pOut, pPc, aIn, aOut, ui, fetch, uiLog>>

\* patch POST up to the call of generateContent
PatchStart(r, projectId, componentId, editPrompt) ==
    /\ CanStart(r)
    /\ started' = started + 1
    /\ LET project == stored
           fresh   == [IdleReq EXCEPT !.kind = "patch", !.projectId = projectId,
                                      !.componentId = componentId,
                                      !.editPrompt = editPrompt,
                                      !.project = project]
           out     == PatchLookup(project, projectId, componentId)
       IN  IF out.status # 0
           THEN /\ last' = Respond(fresh, out)
                /\ UNCHANGED req
           ELSE LET f      == FindComponent(project.components, componentId)
                    target == ExtractTarget(project.components[f], componentId)
                IN  /\ req' = [req EXCEPT ![r] =
                                 [fresh EXCEPT !.pc = "patch", !.called = TRUE,
                                               !.found = f,
                                               !.sent = target.code,
                                               !.preserved = target.preservedClassName]]
                    /\ UNCHANGED last
    /\ UNCHANGED <<stored, now, rand, pIn, pOut, pPc, aIn, aOut, ui, fetch, uiLog>>

\* patch POST from the answer of generateContent to the response
PatchFinish(r, rawPatchCode) ==
    /\ req[r].pc = "patch"
    /\ LET out == PatchOutcome(req[r].project, req[r].componentId, req[r].editPrompt,
                               req[r].preserved, rawPatchCode, rand, now)
       IN  /\ last' = Respond([req[r] EXCEPT !.raw = rawPatchCode], out)
           /\ req' = [req EXCEPT ![r] = IdleReq]
           /\ stored' = IF out.save THEN out.body ELSE stored
           /\ rand' = IF out.save THEN rand + 2 ELSE rand
    /\ now' = now + 1
    /\ UNCHANGED <<started, pIn, pOut, pPc, aIn, aOut, ui, fetch, uiLog>>

\* the project ids a patch request may name
ProjectIds == {"p0", Undefined} \cup (IF stored = NoProject THEN {} ELSE {stored.projectId})

\* the identities a patch request may name
ComponentIds ==
    MarkupIds \cup {Undefined}
      \cup (IF stored = NoProject THEN {}
            ELSE {stored.components[i].id : i \in 1..Len(stored.components)})

Init ==
    /\ stored = NoProject
    /\ req = [r \in Reqs |-> IdleReq]
    /\ last = IdleReq
    /\ now = 0
    /\ rand = 0
    /\ started = 0
    /\ pIn = <<>>
    /\ pOut = <<>>
    /\ pPc = "return"
    /\ aIn = <<>>
    /\ aOut = <<>>
    /\ ui = InitialUI
    /\ fetch = NoFetch
    /\ uiLog = <<>>

Next ==
    \/ \E r \in Reqs, prompt \in Prompts : GenerateStart(r, prompt)
    \/ \E r \in Reqs, rawCode \in GenOutputs : GenerateFinish(r, rawCode)
    \/ \E r \in Reqs, projectId \in ProjectIds, componentId \in ComponentIds,
          editPrompt \in EditPrompts :
            PatchStart(r, projectId, componentId, editPrompt)
    \/ \E r \in Reqs : \E rawPatchCode \in PatchOutputs(req[r].componentId) :
            PatchFinish(r, rawPatchCode)

Spec == Init /\ [][Next]_vars

\* ------------------------------------------------------------------------
\* Requests served one after the other, with bodies that may leave out any
\* field

NextFields ==
    \/ \E prompt \in Prompts \cup {Undefined} : GenerateStart(1, prompt)
    \/ \E rawCode \in GenOutputs : GenerateFinish(1, rawCode)
    \/ \E projectId \in ProjectIds, componentId \in ComponentIds,
          editPrompt \in EditPrompts \cup {Undefined} :
            PatchStart(1, projectId, componentId, editPrompt)
    \/ \E rawPatchCode \in PatchOutputs(req[1].componentId) :
            PatchFinish(1, rawPatchCode)

SpecFields == Init /\ [][NextFields]_vars

\* ------------------------------------------------------------------------
\* decomposeJSX on every input string of bounded size

\* the opening tags of the enumerated inputs: the identity attribute may be
\* absent, empty, or name a or b
OpenTags ==
    {Open(tag, hasId, id, "") :
        tag \in {"div", "span"}, hasId \in {TRUE}, id \in {"", "a", "b"}}
    \cup {Open(tag, FALSE, "", "") : tag \in {"div", "span"}}

\* the well-formed markup with exactly n nodes (elements and text runs)
RECURSIVE Forests(_)
Forests(n) ==
    IF n = 0 THEN {<<>>}
    ELSE {<<Hi>> \o rest : rest \in Forests(n - 1)}
         \cup UNION {
               {<<o>> \o inner \o <<Close(o.tag)>> \o rest :
                   o \in OpenTags, inner \in Forests(i), rest \in Forests(n - 1 - i)}
               : i \in 0..(n - 1)}

\* the text around the markup: nothing, white space, a function component,
\* prose before or after, a stray closing tag, an element left open
Wrappings(f) ==
    { f,
      <<WS>> \o f \o <<WS>>,
      <<FN, RET>> \o f \o <<END>>,
      <<RET, WS>> \o f \o <<WS, END>>,
      <<Text("Sure:", FALSE, "")>> \o f,
      f \o <<Close("span")>>,
      <<Open("div", TRUE, "a", "")>> \o f }

ParserInputs == UNION {Wrappings(f) : f \in UNION {Forests(n) : n \in 0..MaxNodes}}

InitParse ==
    /\ stored = NoProject
    /\ req = [r \in Reqs |-> IdleReq]
    /\ last = IdleReq
    /\ now = 0
    /\ rand = 0
    /\ started = 0
    /\ pIn \in ParserInputs
    /\ pOut = <<>>
    /\ pPc = "call"
    /\ aIn = <<>>
    /\ aOut = <<>>
    /\ ui = InitialUI
    /\ fetch = NoFetch
    /\ uiLog = <<>>

Decompose ==
    /\ pPc = "call"
    /\ pOut' = decomposeJSX(pIn, rand, now)
    /\ pPc' = "return"
    /\ UNCHANGED <<stored, req, last, now, rand, started, pIn, aIn, aOut, ui, fetch, uiLog>>

NextParse == Decompose

SpecParse == InitParse /\ [][NextParse]_vars

\* ------------------------------------------------------------------------
\* assembleJSX on every Component list of bounded size

FragmentCodes ==
    { El("div", "a", <<Hi>>), El("span", "b", <<Bye>>), <<>> }

Fragments ==
    [id          : {"a", "g0"},
     name        : {"Div", "RootContainer"},
     code        : FragmentCodes,
     elementType : {"div"},
     lastUpdated : {0, 1}]

RECURSIVE FragmentLists(_)
FragmentLists(n) ==
    IF n = 0 THEN {<<>>}
    ELSE {<<c>> \o rest : c \in Fragments, rest \in FragmentLists(n - 1)}

InitAssemble ==
    /\ stored = NoProject
    /\ req = [r \in Reqs |-> IdleReq]
    /\ last = IdleReq
    /\ now = 0
    /\ rand = 0
    /\ started = 0
    /\ pIn = <<>>
    /\ pOut = <<>>
    /\ pPc = "return"
    /\ aIn \in UNION {FragmentLists(n) : n \in 0..MaxFrags}
    /\ aOut = <<>>
    /\ ui = InitialUI
    /\ fetch = NoFetch
    /\ uiLog = <<>>

Assemble ==
    /\ Len(aOut) < MaxCalls
    /\ aOut' = Append(aOut, assembleJSX(aIn))
    /\ UNCHANGED <<stored, req, last, now, rand, started, pIn, pOut, pPc, aIn, ui, fetch, uiLog>>

NextAssemble == Assemble

SpecAssemble == InitAssemble /\ [][NextAssemble]_vars

\* ------------------------------------------------------------------------
\* The editor: page.tsx, useIFrameComms.ts, PreviewFrame.tsx

\* the element identities the preview can report
ClickIds == {"a", "b"}

\* what the user may type into the prompt field
TypedPrompts == {"", "make it red"}

\* an entry of the editor's log
Evt(type, elementId, projectId) ==
    [type |-> type, elementId |-> elementId, projectId |-> projectId]

\* isEditMode
IsEditMode(u) == u.lastClickedElementId # Null

\* the message listener of useIFrameComms, registered once by the editor and
\* once by PreviewFrame: an ELEMENT_CLICK message with an elementId sets
\* lastClickedElementId in both
ElementClick(elementId) ==
    /\ Len(uiLog) < MaxUiEvents
    /\ ui' = [ui EXCEPT !.lastClickedElementId = elementId,
                        !.frameLastClickedElementId = elementId]
    /\ uiLog' = Append(uiLog, Evt("click", elementId, Null))
    /\ UNCHANGED <<stored, req, last, now, rand, started, pIn, pOut, pPc, aIn, aOut, fetch>>

\* onChange of the prompt field, which is disabled while loading
TypePrompt(text) ==
    /\ ~ui.isLoading
    /\ ui' = IF IsEditMode(ui) THEN [ui EXCEPT !.editPrompt = text]
                               ELSE [ui EXCEPT !.prompt = text]
    /\ UNCHANGED <<stored, req, last, now, rand, started, pIn, pOut, pPc, aIn, aOut, fetch, uiLog>>

\* bodyData of a patch request
PatchBody(u) ==
    [endpoint    |-> "/api/patch",
     projectId   |-> u.projectId,
     componentId |-> u.lastClickedElementId,
     editPrompt  |-> u.editPrompt]

\* bodyData of a generate request
GenerateBody(u) ==
    [endpoint    |-> "/api/generate",
     projectId   |-> Null,
     componentId |-> Null,
     editPrompt  |-> u.prompt]

\* handleAction and handleApiCall up to the fetch; the button is disabled
\* while loading and, in edit mode, while editPrompt is empty
HandleAction ==
    /\ ~ui.isLoading
    /\ ~(IsEditMode(ui) /\ ui.editPrompt = "")
    /\ Len(uiLog) < MaxUiEvents
    /\ LET isInitialGenerate == ~IsEditMode(ui)
           currentPrompt     == IF isInitialGenerate THEN ui.prompt ELSE ui.editPrompt
       IN  IF currentPrompt = "" THEN
               /\ ui' = [ui EXCEPT !.error = "Prompt is required."]
               /\ UNCHANGED <<fetch, uiLog>>
           ELSE IF ~isInitialGenerate
                   /\ (ui.projectId = Null \/ ui.lastClickedElementId = Null) THEN
               /\ ui' = [ui EXCEPT !.isLoading = FALSE,
                                   !.error = "Cannot patch: Project or selected component is missing."]
               /\ UNCHANGED <<fetch, uiLog>>
           ELSE
               /\ ui' = [ui EXCEPT !.isLoading = TRUE, !.error = Null]
               /\ fetch' = IF isInitialGenerate THEN GenerateBody(ui) ELSE PatchBody(ui)
               /\ uiLog' = Append(uiLog,
                              IF isInitialGenerate THEN Evt("generate", Null, Null)
                              ELSE Evt("patch", ui.lastClickedElementId, ui.projectId))
    /\ UNCHANGED <<stored, req, last, now, rand, started, pIn, pOut, pPc, aIn, aOut>>

\* the responses the two routes can give to a request
Responses(f) ==
    IF f.endpoint = "/api/generate" THEN
        { [ok |-> TRUE,  error |-> Null, projectId |-> "p1"],
          [ok |-> TRUE,  error |-> Null, projectId |-> "p2"],
          [ok |-> FALSE, error |-> "Gemini API returned no text output.", projectId |-> Null] }
    ELSE
        { [ok |-> TRUE,  error |-> Null, projectId |-> f.projectId],
          [ok |-> FALSE, error |-> "Project not found or invalid ID.", projectId |-> Null],
          [ok |-> FALSE, error |-> "Component not found.", projectId |-> Null],
          [ok |-> FALSE, error |-> "Generated code is missing required component ID.",
           projectId |-> Null] }

\* data.error.toLowerCase().includes('project not found')
IsProjectNotFound(error) == error = "Project not found or invalid ID."

\* the useEffect on isEditMode: outside edit mode editPrompt is emptied
EditModeEffect(u) ==
    IF IsEditMode(u) THEN u ELSE [u EXCEPT !.editPrompt = ""]

\* a success path that stays in edit mode
AfterSuccess_KeepSelection(u, resp) ==
    [u EXCEPT !.jsxCode = "code", !.projectId = resp.projectId,
              !.isLoading = FALSE, !.error = Null,
              !.editPrompt = ""]

\* lines 107-119: the state after a successful response
AfterSuccess(u, resp) ==
    [u EXCEPT !.jsxCode = "code", !.projectId = resp.projectId,
              !.isLoading = FALSE, !.error = Null,
              !.editPrompt = "",
              !.lastClickedElementId = Null]

\* lines 92-102: the auto-reset on project not found
AfterProjectNotFound(u) ==
    [u EXCEPT !.projectId = Null, !.jsxCode = "", !.isLoading = FALSE,
              !.error = "Project not found. Please generate a new UI before editing or patching.",
              !.editPrompt = "",
              !.lastClickedElementId = Null]

\* handleApiCall from the response of fetch on
HandleResponse(resp) ==
    /\ fetch # NoFetch
    /\ resp \in Responses(fetch)
    /\ fetch' = NoFetch
    /\ LET outcome == IF resp.ok THEN "ok"
                      ELSE IF IsProjectNotFound(resp.error) THEN "project-not-found"
                      ELSE "error"
           new     == IF resp.ok THEN AfterSuccess(ui, resp)
                      ELSE IF IsProjectNotFound(resp.error) THEN AfterProjectNotFound(ui)
                      ELSE [ui EXCEPT !.isLoading = FALSE, !.error = resp.error]
           entry   == Evt(outcome, Null, resp.projectId)
       IN  /\ ui' = EditModeEffect(new)
           /\ uiLog' = IF outcome # "error" /\ new.lastClickedElementId = Null
                       THEN uiLog \o <<entry, Evt("clear", Null, Null)>>
                       ELSE Append(uiLog, entry)
    /\ UNCHANGED <<stored, req, last, now, rand, started, pIn, pOut, pPc, aIn, aOut>>

NextUI ==
    \/ \E elementId \in ClickIds : ElementClick(elementId)
    \/ \E text \in TypedPrompts : TypePrompt(text)
    \/ HandleAction
    \/ \E resp \in Responses(fetch) : HandleResponse(resp)

SpecUI == Init /\ [][NextUI]_vars

\* ------------------------------------------------------------------------
\* Properties

\* a handler run responds in this step
Responds ==
    \/ \E r \in Reqs : req[r].pc # "idle" /\ req'[r].pc = "idle"
    \/ started' # started /\ req' = req

PatchDone(run) == run.pc = "done" /\ run.kind = "patch"

PatchOk(run) == PatchDone(run) /\ run.status = 200

\* the target identity names an element inside componentToPatch, not its root
NestedTarget(run) ==
    /\ run.found > 0
    /\ run.project.components[run.found].id # run.componentId
    /\ Select(Load(run.project.components[run.found].code), run.componentId) # {}

\* parsing code yields exactly one root element, and it carries identity id
RootIdentityIs(code, id) ==
    LET d == Load(code) IN
    /\ d # <<>>
    /\ d[1].k = "open"
    /\ Match(d, 1) = Len(d)
    /\ d[1].hasId
    /\ d[1].id = id

FallbackNames == {"RootContainer", "ErrorFallback"}

\* C1: after a successful patch of an element nested inside fragment F, F's
\* content in the returned project is F's old content with the nested
\* element replaced by the new content, and F's id is unchanged.
C1_NestedTargetReplaced ==
    (PatchOk(last) /\ NestedTarget(last)) =>
        LET old == last.project.components[last.found]
            new == last.body.components[last.found]
            d   == Load(old.code)
            i   == Min(Select(d, last.componentId))
        IN  /\ new.id = old.id
            /\ new.code = SubSeq(d, 1, i - 1) \o last.patchCode
                            \o SubSeq(d, Match(d, i) + 1, Len(d))

\* C2: the stored project changes only in the step in which a request
\* responds with success, and then it is the project of the response and
\* that request saved once; a patch request that responds with an error
\* saved nothing and leaves the stored project as it was.
C2_StoredOnlyOnSuccess ==
    [][ /\ (stored' # stored) =>
              (Responds /\ last'.status = 200 /\ last'.saves = 1 /\ stored' = last'.body)
        /\ (Responds /\ PatchDone(last') /\ last'.status # 200) =>
              (stored' = stored /\ last'.saves = 0)
        /\ (Responds /\ PatchOk(last')) =>
              (stored' = last'.body /\ last'.saves = 1)
        /\ \A r \in Reqs : req'[r].saves = 0 ]_vars

\* a patch has succeeded, changed a fragment, and the result is what is stored
C2_Witness ==
    /\ PatchOk(last)
    /\ last.body.components # last.project.components
    /\ stored = last.body

\* C3: after a successful patch every fragment other than the one found
\* for the target identity has the content, id and lastUpdated it had.
C3_OthersUnchanged ==
    PatchOk(last) =>
        /\ Len(last.body.components) = Len(last.project.components)
        /\ \A i \in 1..Len(last.project.components) :
              i # last.found => last.body.components[i] = last.project.components[i]

\* the answer of the model, once sanitized, does not spell the identity attribute
LacksIdentity(run) ==
    /\ PatchDone(run)
    /\ run.called
    /\ ~StartsWithError(run.raw)
    /\ \A i \in 1..Len(sanitizeCode(Trim(StripFences(run.raw)))) :
          LET t == sanitizeCode(Trim(StripFences(run.raw)))[i] IN
          ~(t.hasId /\ t.id = run.componentId)

\* C4: a patch whose sanitized new content lacks the target identity
\* attribute is answered with the invalid-patch error, saves nothing and
\* leaves the stored project as it was.
C4_MissingIdentityRejected ==
    [][ (Responds /\ LacksIdentity(last')) =>
            /\ last'.status = 500
            /\ last'.error = "Generated code is missing required component ID."
            /\ last'.body = NoProject
            /\ last'.saves = 0
            /\ stored' = stored ]_vars

\* such a patch was rejected while a project with fragments is stored
C4_Witness ==
    /\ LacksIdentity(last)
    /\ last.status = 500
    /\ stored # NoProject
    /\ stored = last.project

\* C5: in the stored project every fragment that is not a synthesized
\* fallback has content with a single root element whose identity is the
\* fragment's id.
C5_RootCarriesFragmentId ==
    stored # NoProject =>
        \A i \in 1..Len(stored.components) :
            stored.components[i].name \notin FallbackNames =>
                RootIdentityIs(stored.components[i].code, stored.components[i].id)

\* C6: decomposeJSX returns a non-empty list for every input.
C6_NonEmpty ==
    pPc = "return" => Len(pOut) >= 1

\* the captured return body was white space only, and one fragment came back
C6_Witness ==
    /\ pPc = "return"
    /\ ComponentRegex(pIn).found
    /\ ComponentRegex(pIn).group = <<WS, WS>>
    /\ Len(pOut) = 1

\* C7: no two fragments returned by one decomposeJSX call share an id.
C7_UniqueIds ==
    pPc = "return" =>
        \A i, j \in 1..Len(pOut) : i # j => pOut[i].id # pOut[j].id

\* C8 as stated: re-parsing the code of every returned fragment yields a
\* root element whose identity equals the fragment's id.
C8_RootIdentityAll ==
    pPc = "return" =>
        \A i \in 1..Len(pOut) : RootIdentityIs(pOut[i].code, pOut[i].id)

\* C8 amended: this holds of every fragment that is not a fallback and
\* whose root element has a non-empty identity attribute; a fragment built
\* from an element with an empty identity attribute has that element as
\* its single root.
C8_RootIdentityOfIdentified ==
    pPc = "return" =>
        \A i \in 1..Len(pOut) :
            pOut[i].name \notin FallbackNames =>
                LET d == Load(pOut[i].code) IN
                /\ d # <<>>
                /\ d[1].k = "open"
                /\ Match(d, 1) = Len(d)
                /\ d[1].hasId
                /\ d[1].id # "" => d[1].id = pOut[i].id

\* a fragment with an identified element nested in it came back
C8_Witness ==
    /\ pPc = "return"
    /\ \E i \in 1..Len(pOut) :
          /\ pOut[i].name \notin FallbackNames
          /\ pOut[i].id = "a"
          /\ Cardinality(Identified(pOut[i].code)) >= 2

\* the identified elements of document d that have no identified ancestor
RootLevel(d) ==
    {i \in Identified(d) :
        ~\E j \in Identified(d) : j < i /\ i < Match(d, j)}

\* the k-th smallest member of a set of numbers
Kth(S, k) == CHOOSE x \in S : Cardinality({y \in S : y < x}) = k - 1

\* C9: when the working markup has identified elements, the fragments
\* returned are exactly its identified elements without identified
\* ancestor, in document order, each with the whole markup of its element
\* (nested identified elements included) as code.
C9_RootLevelInOrder ==
    (pPc = "return" /\ WorkingMarkup(pIn).ok) =>
        LET d == Load(WorkingMarkup(pIn).innerJSX) IN
        Identified(d) # {} =>
            /\ Len(pOut) = Cardinality(RootLevel(d))
            /\ \A k \in 1..Len(pOut) :
                  LET i == Kth(RootLevel(d), k) IN
                  /\ pOut[k].code = SubSeq(d, i, Match(d, i))
                  /\ \A n \in Identified(d) :
                        (i < n /\ n < Match(d, i)) =>
                            /\ n \notin RootLevel(d)
                            /\ SubSeq(pOut[k].code, n - i + 1, Match(d, n) - i + 1)
                                 = SubSeq(d, n, Match(d, n))

\* one fragment came back for markup in which element b is nested inside
\* element a, and its code still embeds b
C9_Witness ==
    /\ pPc = "return"
    /\ Len(pOut) = 1
    /\ pOut[1].id = "a"
    /\ \E n \in Identified(pOut[1].code) : n > 1 /\ pOut[1].code[n].id = "b"

\* no project is stored, its id is not the requested one, or no fragment
\* has the target identity as id or in its content
NothingToPatch(run) ==
    \/ run.project = NoProject
    \/ run.project.projectId # run.projectId
    \/ \A i \in 1..Len(run.project.components) :
          /\ run.project.components[i].id # run.componentId
          /\ ~\E n \in 1..Len(run.project.components[i].code) :
                /\ run.project.components[i].code[n].hasId
                /\ run.project.components[i].code[n].id = run.componentId

\* C10: such a patch request is answered with not-found, the model is not
\* called, and the stored project stays as it was.
C10_NotFound ==
    [][ (Responds /\ PatchDone(last') /\ NothingToPatch(last')) =>
            /\ last'.status = 404
            /\ ~last'.called
            /\ last'.saves = 0
            /\ stored' = stored ]_vars

\* a patch for an identity no fragment has was answered while the project is stored
C10_Witness ==
    /\ PatchDone(last)
    /\ last.project # NoProject
    /\ last.project.projectId = last.projectId
    /\ NothingToPatch(last)
    /\ last.status = 404
    /\ stored = last.project

\* the code strings of a Component list, in order
CodesOf(components) == [i \in 1..Len(components) |-> components[i].code]

\* strings joined with exactly one newline between consecutive ones
RECURSIVE JoinedByNewline(_)
JoinedByNewline(codes) ==
    IF codes = <<>> THEN <<>>
    ELSE IF Len(codes) = 1 THEN codes[1]
    ELSE codes[1] \o <<NL>> \o JoinedByNewline(Tail(codes))

\* C11: every call of assembleJSX returns the fixed prefix, the code of the
\* fragments in collection order with exactly one newline between
\* consecutive fragments, and the fixed suffix; the result is determined by
\* the ordered codes alone (ids, names and timestamps play no part) and
\* two calls on the same list return the same string.
C11_AssembleOfCodesOnly ==
    /\ \A k \in 1..Len(aOut) :
          aOut[k] = AssemblePrefix \o JoinedByNewline(CodesOf(aIn)) \o AssembleSuffix
    /\ \A j, k \in 1..Len(aOut) : aOut[j] = aOut[k]

\* assembleJSX was called twice on two fragments that share id, name and
\* timestamp and differ in code
C11_Witness ==
    /\ Len(aOut) = 2
    /\ Len(aIn) = 2
    /\ aIn[1].code # aIn[2].code
    /\ aIn[1].code # <<>>
    /\ aIn[2].code # <<>>
    /\ aIn[1].id = aIn[2].id
    /\ aIn[1].name = aIn[2].name
    /\ aIn[1].lastUpdated = aIn[2].lastUpdated

\* C12: whenever a project is stored, its fullCode is assembleJSX of its
\* current components.
C12_FullCodeIsAssembled ==
    stored # NoProject => stored.fullCode = assembleJSX(stored.components)

\* a patch has changed a fragment of the stored project and with it fullCode
C12_Witness ==
    /\ PatchOk(last)
    /\ stored = last.body
    /\ last.body.components # last.project.components
    /\ stored.fullCode # last.project.fullCode

\* C13: a patch run during which no other run saved (the project it loaded
\* is still the stored one when it responds) stores, on success, the
\* previous history followed by exactly one new record, all earlier records
\* as they were; on failure it leaves the stored history as it was.
C13_HistoryAppendOnly ==
    [][ (Responds /\ PatchDone(last') /\ last'.project = stored) =>
            IF last'.status = 200
            THEN /\ stored' # NoProject
                 /\ Len(stored'.history) = Len(stored.history) + 1
                 /\ SubSeq(stored'.history, 1, Len(stored.history)) = stored.history
                 /\ stored'.history[Len(stored'.history)].description
                        = <<"Patched component", last'.componentId, last'.editPrompt>>
            ELSE stored' = stored ]_vars

\* the second successful patch in a row: the history holds the initial
\* record and two patch records
C13_Witness ==
    /\ PatchOk(last)
    /\ stored = last.body
    /\ Len(last.project.history) = 2
    /\ Len(stored.history) = 3
    /\ SubSeq(stored.history, 1, 2) = last.project.history

\* the tag name of the root element of code, "" when code does not start
\* with an element
RootTag(code) ==
    LET d == Load(code) IN
    IF d # <<>> /\ d[1].k = "open" THEN d[1].tag ELSE ""

\* C14: every fragment of the stored project (as decomposeJSX produced it,
\* and after any successful patch) has as elementType the tag name of the
\* root element of its code.
C14_ElementTypeIsRootTag ==
    stored # NoProject =>
        \A i \in 1..Len(stored.components) :
            stored.components[i].elementType = RootTag(stored.components[i].code)

\* the input holds a return block with something between its parentheses
HasReturnBlock(s) ==
    \E i, j \in 1..Len(s) : s[i] = RET /\ s[j] = END /\ j > i + 1

\* the trimmed input is one well-formed element and nothing else
SingleElement(s) ==
    LET t == Trim(s) IN
    /\ Len(t) >= 2
    /\ t[1].k = "open"
    /\ \A i \in 1..Len(t) : IsTag(t[i]) => t[i].lcls = ""
    /\ Load(t) = t
    /\ Match(t, 1) = Len(t)

\* the trimmed input starts with a tag and ends with a closing tag
TagToClosingTag(s) ==
    LET t == Trim(s) IN
    /\ Len(t) >= 2
    /\ t[1].k \in {"open", "close"}
    /\ t[Len(t)].k = "close"

\* the single fragment with the fixed error payload and a generated id
IsErrorFallback(out, in) ==
    /\ Len(out) = 1
    /\ out[1].code = ErrorPayload
    /\ out[1].elementType = "div"
    /\ out[1].id = GenId(rand)
    /\ \A i \in 1..Len(in) : in[i].id # out[1].id

C16_RootContainerFallback ==
    (pPc = "return" /\ WorkingMarkup(pIn).ok) =>
        LET innerJSX == WorkingMarkup(pIn).innerJSX IN
        (\A i \in 1..Len(innerJSX) : ~(innerJSX[i].k = "open" /\ innerJSX[i].hasId)) =>
            /\ Len(pOut) = 1
            /\ pOut[1].code = innerJSX
            /\ pOut[1].name = "RootContainer"
            /\ pOut[1].elementType = "div"
            /\ pOut[1].id = GenId(rand)
            /\ \A i \in 1..Len(pIn) : pIn[i].id # pOut[1].id

\* a bare span without identity came back whole as the RootContainer fragment
C16_Witness ==
    /\ pPc = "return"
    /\ pIn = <<Open("span", FALSE, "", ""), Hi, Close("span")>>
    /\ Len(pOut) = 1
    /\ pOut[1].code = pIn
    /\ pOut[1].name = "RootContainer"

\* the fragment found has another id than the target, and no element of its
\* parsed content carries the target identity
NoSuchElement(run) ==
    /\ run.kind = "patch"
    /\ run.found > 0
    /\ run.project.components[run.found].id # run.componentId
    /\ Select(Load(run.project.components[run.found].code), run.componentId) = {}

\* C17: a patch request in that case makes no call of generateContent with
\* the whole fragment as target, ends with not-found and saves nothing.
C17_NoStandInTarget ==
    /\ \A r \in Reqs : NoSuchElement(req[r]) => ~req[r].called
    /\ (PatchDone(last) /\ NoSuchElement(last)) =>
          (last.status = 404 /\ ~last.called /\ last.saves = 0)

\* C18: while a patch run is between its loadProject and its saveProject
\* (awaiting generateContent), no other run's saveProject takes effect: the
\* project it loaded is still the stored one.
C18_CycleNotInterleaved ==
    \A r \in Reqs : req[r].pc = "patch" => req[r].project = stored

\* the request body of this run leaves out a required field
MissingField(run) ==
    \/ run.kind = "generate" /\ run.prompt = Undefined
    \/ run.kind = "patch" /\ Undefined \in {run.projectId, run.componentId, run.editPrompt}

\* C19: a request that leaves out a required field never reaches
\* generateContent, is answered with the invalid-input status, and saves
\* nothing.
C19_MissingFieldRejected ==
    /\ \A r \in Reqs : MissingField(req[r]) => ~req[r].called
    /\ (last.pc = "done" /\ MissingField(last)) =>
          (last.status = 400 /\ ~last.called /\ last.saves = 0)

\* the className value of the first element of code that carries identity
\* id, however the attribute name is cased; "" when there is none
ClassNameOf(code, id) ==
    LET d   == Load(code)
        sel == Select(d, id)
    IN  IF sel = {} THEN ""
        ELSE IF d[Min(sel)].cls # "" THEN d[Min(sel)].cls ELSE d[Min(sel)].lcls

\* C20: the replacement markup of a successful patch carries, for a nested
\* target whose prior className P is non-empty, P then a space then the
\* className N of the answer; for a root target or without P, the
\* className N as generated.
C20_ClassNameMerged ==
    (PatchOk(last) /\ Select(Load(Trim(StripFences(last.raw))), last.componentId) # {}) =>
        LET P == ClassNameOf(last.project.components[last.found].code, last.componentId)
            N == ClassNameOf(Trim(StripFences(last.raw)), last.componentId)
        IN  ClassNameOf(last.patchCode, last.componentId) =
                IF NestedTarget(last) /\ P # ""
                THEN (IF N = "" THEN P ELSE P \o " " \o N)
                ELSE N

\* C22: once a project is stored, the stored projectId changes only in a
\* step in which a generate request responds; a patch run never stores its
\* copy of an older project over a newer one.
C22_ProjectIdChangesOnlyByGenerate ==
    [][ (stored # NoProject /\ stored' # NoProject
           /\ stored'.projectId # stored.projectId) =>
            (Responds /\ last'.kind = "generate") ]_vars

\* position i of document d lies inside an occurrence of code in d
CoveredBy(d, i, code) ==
    \E o \in 1..Len(d) :
        /\ o <= i
        /\ i <= o + Len(code) - 1
        /\ o + Len(code) - 1 <= Len(d)
        /\ SubSeq(d, o, o + Len(code) - 1) = code

\* C23: when the working markup has an identified element, every element
\* and every text node of it lies inside the code of some returned
\* fragment.
C23_NoMarkupLost ==
    (pPc = "return" /\ WorkingMarkup(pIn).ok) =>
        LET d == Load(WorkingMarkup(pIn).innerJSX) IN
        Identified(d) # {} =>
            \A i \in 1..Len(d) :
                \E k \in 1..Len(pOut) : CoveredBy(d, i, pOut[k].code)

\* the largest member of a set of numbers, 0 for the empty set
Max0(S) == IF S = {} THEN 0 ELSE CHOOSE x \in S : \A y \in S : y <= x

\* the ELEMENT_CLICK messages received before log entry n and after the
\* last clearing of the selection before n
ClicksSinceClear(n) ==
    LET c == Max0({m \in 1..(n - 1) : uiLog[m].type = "clear"})
    IN  {m \in (c + 1)..(n - 1) : uiLog[m].type = "click"}

\* C21: every patch request the editor sends names a known project and the
\* identity of the most recent ELEMENT_CLICK message received since the
\* selection was last cleared; a generate request is what the action sends
\* when there is no selection; and once a request has succeeded or ended
\* in the project-not-found reset, the selection is empty until the next
\* ELEMENT_CLICK message.
C21_PatchTargetsSelection ==
    /\ \A n \in 1..Len(uiLog) :
          uiLog[n].type = "patch" =>
              /\ uiLog[n].projectId # Null
              /\ ClicksSinceClear(n) # {}
              /\ uiLog[n].elementId = uiLog[Max0(ClicksSinceClear(n))].elementId
    /\ \A n \in 1..Len(uiLog) :
          uiLog[n].type = "generate" => ClicksSinceClear(n) = {}
    /\ \A n \in 1..Len(uiLog) :
          (/\ uiLog[n].type \in {"ok", "project-not-found"}
           /\ \A m \in (n + 1)..Len(uiLog) : uiLog[m].type # "click") =>
              /\ ui.lastClickedElementId = Null
              /\ n < Len(uiLog)
              /\ uiLog[n + 1].type = "clear"
    /\ fetch.endpoint = "/api/patch" =>
          /\ fetch.componentId # Null
          /\ fetch.projectId = ui.projectId

\* after a successful generate, a was clicked, then b, and the patch
\* request sent names b
C21_Witness ==
    /\ Len(uiLog) = 6
    /\ uiLog[2].type = "ok"
    /\ uiLog[3].type = "clear"
    /\ uiLog[4] = Evt("click", "a", Null)
    /\ uiLog[5] = Evt("click", "b", Null)
    /\ uiLog[6].type = "patch"
    /\ fetch.componentId = "b"

\* C24: the selection PreviewFrame holds for its badge equals the
\* editor's lastClickedElementId.
C24_OneSelection ==
    ui.frameLastClickedElementId = ui.lastClickedElementId

====
